---- MODULE Spec2Model ----
(***************************************************************************)
(* toy-storage: a line-oriented key-value server.                          *)
(*                                                                         *)
(* Two state machines share this module:                                   *)
(*   Spec       the store actor, its bounded command channel and the       *)
(*              connection tasks that talk to it through cloned handles;   *)
(*   SpecCodec  one decoder fed a byte stream in arbitrary chunks.         *)
(*                                                                         *)
(* The repository holds two builds of the same server: the root modules    *)
(* (codec.rs, communication.rs, store.rs) and the api/storage modules      *)
(* (api/codec.rs, api/service.rs, storage/inmemory.rs).  The variable      *)
(* `stack` says which build runs; it is chosen at start and never changes. *)
(*                                                                         *)
(* Bytes are one-character strings, byte buffers are sequences of them.    *)
(* Option<T> is a sequence of length 0 (None) or 1 (Some).                 *)
(***************************************************************************)
EXTENDS Naturals, Integers, Sequences, FiniteSets, TLC

VARIABLES
    stack,      \* "root" or "api": the build that runs
    \* ---- the store actor and its channel
    data,       \* Backend.data: HashMap<Key, Value>, a function on the present keys
    queue,      \* the mpsc channel: commands sent and not yet received
    actor,      \* "Running" while Backend::start loops, then "Stopped"
    server,     \* TRUE while Server::start holds its Store handle
    \* ---- one task per connection
    pc,         \* where each connection task is
    req,        \* the request a connection decoded and is processing
    slot,       \* the oneshot reply slot of a connection's pending get
    out,        \* the bytes each connection has written to its transport
    \* ---- history (not program state)
    received,   \* the commands the actor has dequeued, in order, with the reply of each Get
    sent,       \* the requests each handle has submitted to the channel, in order
    nreq,       \* how many times a transport has delivered a line or an error
    \* ---- the decoder under test
    src,        \* the BytesMut read buffer
    next_index, \* Codec.next_index / LinesCodec.next_index: the scan cursor
    input,      \* bytes the transport has still to deliver
    fed,        \* bytes delivered so far
    results,    \* what each decode call returned, in order
    fresh       \* decode calls that returned None since the last delivery of bytes

storeVars == <<data, queue, actor, server, pc, req, slot, out, received, sent, nreq>>
codecVars == <<src, next_index, input, fed, results, fresh>>
vars == <<stack, storeVars, codecVars>>

Stacks == {"root", "api"}

\* ------------------------------------------------------------------ bytes
SP == " "
NL == "\n"
CR == "\r"

GET == <<"G", "E", "T">>
SET == <<"S", "E", "T">>
OKAY == <<"O", "K", "A", "Y">>
FAIL == <<"F", "A", "I", "L">>

None == <<>>
Some(x) == <<x>>

\* position (1-based) of the first byte b of s at an index > from, or 0
RECURSIVE Position(_, _, _)
Position(s, b, from) ==
    IF from >= Len(s) THEN 0
    ELSE IF s[from + 1] = b THEN from + 1
    ELSE Position(s, b, from + 1)

\* str::split(' '): the fields between single spaces, empty fields included
RECURSIVE Split(_)
Split(s) ==
    LET i == Position(s, SP, 0)
    IN  IF i = 0 THEN <<s>>
        ELSE <<SubSeq(s, 1, i - 1)>> \o Split(SubSeq(s, i + 1, Len(s)))

\* ------------------------------------------------------------------ requests and responses
GetRequest(k) == [op |-> "Get", key |-> k, value |-> None]
SetRequest(k, v) == [op |-> "Set", key |-> k, value |-> Some(v)]

Ok(r) == [tag |-> "Ok", item |-> Some(r)]
OkNone == [tag |-> "Ok", item |-> None]
Err == [tag |-> "Err", item |-> None]

\* codec.rs Request::parse
Parse(line) ==
    LET components == Split(line)
    IN  IF components[1] = GET
        THEN IF Len(components) # 2 THEN Err ELSE Ok(GetRequest(components[2]))
        ELSE IF components[1] = SET
        THEN IF Len(components) # 3 THEN Err
             ELSE Ok(SetRequest(components[2], components[3]))
        ELSE Err

\* api/codec.rs Request::from_wire: the fields are pulled from the split iterator one
\* by one, and whatever follows the last one needed is never looked at
FromWire(line) ==
    LET components == Split(line)
        command == components[1]
    IN  IF command = GET
        THEN IF Len(components) < 2 THEN Err ELSE Ok(GetRequest(components[2]))
        ELSE IF command = SET
        THEN IF Len(components) < 2 THEN Err
             ELSE IF Len(components) < 3 THEN Err
             ELSE Ok(SetRequest(components[2], components[3]))
        ELSE Err

\* ------------------------------------------------------------------ decoding
Decoded(buf, ni, r) == [src |-> buf, next_index |-> ni, result |-> r]

\* mutant: a malformed line is put back instead of being dropped
DecodeRootKeepsMalformed(buf, ni) ==
    LET p == Position(buf, NL, ni)
    IN  IF p # 0
        THEN LET r == Parse(SubSeq(buf, 1, p - 1))
             IN  IF r = Err THEN Decoded(buf, 0, r)
                 ELSE Decoded(SubSeq(buf, p + 1, Len(buf)), 0, r)
        ELSE Decoded(buf, Len(buf), OkNone)

\* mutant: a call that finds no terminator throws the partial line away
DecodeRootDropsPartial(buf, ni) ==
    LET p == Position(buf, NL, ni)
    IN  IF p # 0
        THEN LET line == SubSeq(buf, 1, p - 1)
             IN  Decoded(SubSeq(buf, p + 1, Len(buf)), 0, Parse(line))
        ELSE Decoded(<<>>, 0, OkNone)

\* mutant: newline_index is taken relative to the cursor, without adding next_index
DecodeRootSplitsAtCursor(buf, ni) ==
    LET p == Position(buf, NL, ni)
    IN  IF p # 0
        THEN LET line == SubSeq(buf, 1, p - ni - 1)
             IN  Decoded(SubSeq(buf, p - ni + 1, Len(buf)), 0, Parse(line))
        ELSE Decoded(buf, Len(buf), OkNone)

\* mutant: the cursor is left where it was when a line is extracted
DecodeRootKeepsCursor(buf, ni) ==
    LET p == Position(buf, NL, ni)
    IN  IF p # 0
        THEN LET line == SubSeq(buf, 1, p - 1)
             IN  Decoded(SubSeq(buf, p + 1, Len(buf)), ni, Parse(line))
        ELSE Decoded(buf, Len(buf), OkNone)

\* codec.rs Codec::decode.  `p` is newline_index: the number of bytes up to and
\* including the first terminator at or after the cursor.
DecodeRoot(buf, ni) ==
    LET p == Position(buf, NL, ni)
    IN  IF p # 0
        THEN LET line == SubSeq(buf, 1, p - 1)
             IN  Decoded(SubSeq(buf, p + 1, Len(buf)), 0, Parse(line))
        ELSE Decoded(buf, Len(buf), OkNone)

\* LinesCodec drops one carriage return in front of the terminator
WithoutCarriageReturn(line) ==
    IF Len(line) > 0 /\ line[Len(line)] = CR THEN SubSeq(line, 1, Len(line) - 1) ELSE line

\* api/codec.rs Codec::decode: LinesCodec::decode (no length limit) extracts the
\* line, Request::from_wire parses it
DecodeApi(buf, ni) ==
    LET p == Position(buf, NL, ni)
    IN  IF p # 0
        THEN LET line == WithoutCarriageReturn(SubSeq(buf, 1, p - 1))
             IN  Decoded(SubSeq(buf, p + 1, Len(buf)), 0, FromWire(line))
        ELSE Decoded(buf, Len(buf), OkNone)

Decode(st, buf, ni) == IF st = "api" THEN DecodeApi(buf, ni) ELSE DecodeRoot(buf, ni)

\* ------------------------------------------------------------------ encoding
GetResponse(k, v) == [op |-> "Get", key |-> k, value |-> v]
SetResponse(k) == [op |-> "Set", key |-> k, value |-> None]

\* mutant: the line is written over what the destination held (clear, then extend)
EncodeRootOverwrites(dst, item) ==
    IF item.op = "Set"
    THEN OKAY \o <<SP>> \o item.key \o <<NL>>
    ELSE LET status == IF item.value # None THEN OKAY ELSE FAIL
         IN  status \o <<SP>> \o item.key
                 \o (IF item.value # None THEN <<SP>> \o item.value[1] ELSE <<>>)
                 \o <<NL>>

\* codec.rs Response::encode_to followed by the terminator of Codec::encode
EncodeRoot(dst, item) ==
    IF item.op = "Set"
    THEN dst \o OKAY \o <<SP>> \o item.key \o <<NL>>
    ELSE LET status == IF item.value # None THEN OKAY ELSE FAIL
         IN  dst \o status \o <<SP>> \o item.key
                 \o (IF item.value # None THEN <<SP>> \o item.value[1] ELSE <<>>)
                 \o <<NL>>

\* mutant: a Get without a value reports OKAY too
StatusAlwaysOkay(item) == OKAY

\* api/types.rs Response::status
Status(item) ==
    IF item.op = "Get" THEN (IF item.value # None THEN OKAY ELSE FAIL) ELSE OKAY

\* api/codec.rs Response::into_wire
IntoWire(item) ==
    IF item.op = "Set"
    THEN Status(item) \o <<SP>> \o item.key
    ELSE IF item.value # None
         THEN Status(item) \o <<SP>> \o item.key \o <<SP>> \o item.value[1]
         ELSE Status(item) \o <<SP>> \o item.key

\* api/codec.rs Codec::encode: LinesCodec::encode appends the line and a terminator
EncodeApi(dst, item) == dst \o IntoWire(item) \o <<NL>>

Encode(st, dst, item) == IF st = "api" THEN EncodeApi(dst, item) ELSE EncodeRoot(dst, item)

\* ------------------------------------------------------------------ inputs
KeyA == <<"a">>
KeyB == <<"b">>
Keys == {KeyA, KeyB}
Value1 == <<"1">>
Value2 == <<"2">>
Values == {Value1, Value2}

GetLine(k) == GET \o <<SP>> \o k
SetLine(k, v) == SET \o <<SP>> \o k \o <<SP>> \o v

\* request lines without their terminator: well-formed ones, and malformed ones of
\* every kind the grammar names
WellFormedLines == {GetLine(KeyA), SetLine(KeyA, Value1)}
MalformedLines ==
    { GET, SET, SET \o <<SP>> \o KeyA, <<"B", "A", "D">> \o <<SP>> \o KeyA, <<>> }
SurplusLines == {GetLine(KeyA) \o <<SP>> \o KeyB, SetLine(KeyA, Value1) \o <<SP>> \o Value2}
OddLines == {GET \o <<SP>>, GetLine(KeyA) \o <<CR>>}
CodecLines == WellFormedLines \cup MalformedLines \cup SurplusLines \cup OddLines

\* the lines that may follow the first line of a stream
FollowLines == {GetLine(KeyB), <<"B", "A", "D">>}

MaxLines == 2
MaxCalls == 5
MaxIdle == 1

\* the byte streams a client may send: up to MaxLines terminated lines (any line
\* first, then lines of FollowLines), then possibly the beginning of one more
RECURSIVE Followers(_)
Followers(n) ==
    IF n = 0 THEN {<<>>}
    ELSE {<<>>} \cup {l \o <<NL>> \o t : l \in FollowLines, t \in Followers(n - 1)}

Terminated == {<<>>} \cup {l \o <<NL>> \o t : l \in CodecLines, t \in Followers(MaxLines - 1)}
Partials == {<<>>, <<"G", "E">>}
Streams == {t \o p : t \in Terminated, p \in Partials}

\* ------------------------------------------------------------------ the decoder fed in chunks
Conns == {"c1", "c2"}

\* storage/inmemory.rs start (store.rs Store::new): an empty map behind an empty
\* channel.  Server::start has accepted the connections of Conns, cloned its handle
\* for each and spawned their tasks, which wait for their first line.
InitStore ==
    /\ data = <<>>
    /\ queue = <<>>
    /\ actor = "Running"
    /\ server = TRUE
    /\ pc = [c \in Conns |-> "read"]
    /\ req = [c \in Conns |-> None]
    /\ slot = [c \in Conns |-> None]
    /\ out = [c \in Conns |-> <<>>]
    /\ received = <<>>
    /\ sent = [c \in Conns |-> <<>>]
    /\ nreq = 0

InitCodec ==
    /\ stack \in Stacks
    /\ src = <<>>
    /\ next_index = 0
    /\ input \in Streams
    /\ fed = <<>>
    /\ results = <<>>
    /\ fresh = 0
    /\ InitStore

\* the transport delivers the next n bytes: Framed appends them to the read buffer
Feed(n) ==
    /\ n \in 1..Len(input)
    /\ src' = src \o SubSeq(input, 1, n)
    /\ fed' = fed \o SubSeq(input, 1, n)
    /\ input' = SubSeq(input, n + 1, Len(input))
    /\ fresh' = 0
    /\ UNCHANGED <<stack, next_index, results, storeVars>>

\* one call of Decoder::decode on the read buffer; `fresh` counts the calls that
\* returned None since the last delivery, and a caller that got None asks at most
\* MaxIdle times more before new bytes arrive
DecodeCall ==
    /\ Len(results) < MaxCalls
    /\ fresh <= MaxIdle
    /\ LET d == Decode(stack, src, next_index)
       IN  /\ src' = d.src
           /\ next_index' = d.next_index
           /\ results' = Append(results, d.result)
           /\ fresh' = IF d.result = OkNone THEN fresh + 1 ELSE fresh
    /\ UNCHANGED <<stack, input, fed, storeVars>>

NextCodec == (\E n \in 1..Len(input) : Feed(n)) \/ DecodeCall

SpecCodec == InitCodec /\ [][NextCodec]_vars

\* ------------------------------------------------------------------ the store actor
\* mutant: a missing key reads as the empty value (unwrap_or_default)
HashMapGetOrDefault(d, k) == IF k \in DOMAIN d THEN Some(d[k]) ELSE Some(<<>>)

\* HashMap::get(..).map(Value::clone)
HashMapGet(d, k) == IF k \in DOMAIN d THEN Some(d[k]) ELSE None

\* mutant: an existing entry is kept (entry(k).or_insert(v))
HashMapInsertIfAbsent(d, k, v) == [x \in (DOMAIN d) \cup {k} |-> IF x \in DOMAIN d THEN d[x] ELSE v]

\* mutant: the map is replaced by one holding the new entry only
HashMapInsertAlone(d, k, v) == [x \in {k} |-> v]

\* HashMap::insert
HashMapInsert(d, k, v) == [x \in (DOMAIN d) \cup {k} |-> IF x = k THEN v ELSE d[x]]

\* mutant: a Get takes the entry out of the map (HashMap::remove)
BackendDataGetRemoves(d, command) ==
    IF command.op = "Set" THEN HashMapInsert(d, command.key, command.value[1])
    ELSE [x \in (DOMAIN d) \ {command.key} |-> d[x]]

\* the map after Backend::start has matched one command
BackendData(d, command) ==
    IF command.op = "Set" THEN HashMapInsert(d, command.key, command.value[1]) ELSE d

\* what Backend::start sends on the reply slot of a Get
BackendReply(d, command) == HashMapGet(d, command.key)

\* mutant: the newest command is received first
ChannelSendToFront(q, command) == <<command>> \o q

\* mpsc::Sender::send once a permit is there: the command goes to the back
ChannelSend(q, command) == Append(q, command)

\* the capacity given to mpsc::channel
ChannelCapacity == 32

\* The channel is made with mpsc::channel(32).  The state machine runs it with a
\* smaller capacity, so that senders do meet a full channel within MaxReqs requests.
Capacity == 2
\* how many lines or read errors the transports deliver in all
MaxReqs == 3

\* the request lines a client may write, without the terminator
ClientLines ==
    { GetLine(KeyA), GetLine(KeyB),
      SetLine(KeyA, Value1), SetLine(KeyA, Value2), SetLine(KeyB, Value1),
      <<"B", "A", "D">> }

Alive == {"read", "send", "await"}
\* the Store handles (channel senders) that exist: the server's and one per live task
Handles == {c \in Conns : pc[c] \in Alive} \cup (IF server THEN {"server"} ELSE {})

InitIdleCodec ==
    /\ src = <<>>
    /\ next_index = 0
    /\ input = <<>>
    /\ fed = <<>>
    /\ results = <<>>
    /\ fresh = 0

Init == stack \in Stacks /\ InitStore /\ InitIdleCodec

\* Server::start: accept fails, the loop ends and the server's handle is dropped
ServerStop ==
    /\ server
    /\ server' = FALSE
    /\ UNCHANGED <<stack, data, queue, actor, pc, req, slot, out, received, sent, nreq, codecVars>>

\* mutant: the command of a request goes into the channel twice
SubmitEnqueuesTwice(c, r) ==
    LET command == [op |-> r.op, key |-> r.key, value |-> r.value,
                    from |-> c, seq |-> Len(sent[c]) + 1]
    IN  IF actor = "Stopped"
        THEN /\ pc' = [pc EXCEPT ![c] = "store_error"]
             /\ UNCHANGED <<queue, sent, out, slot>>
        ELSE /\ queue' = ChannelSend(ChannelSend(queue, command), command)
             /\ sent' = [sent EXCEPT ![c] = Append(sent[c], r)]
             /\ slot' = [slot EXCEPT ![c] = None]
             /\ IF r.op = "Set"
                THEN /\ out' = [out EXCEPT ![c] = Encode(stack, out[c], SetResponse(r.key))]
                     /\ pc' = [pc EXCEPT ![c] = "read"]
                ELSE /\ out' = out
                     /\ pc' = [pc EXCEPT ![c] = "await"]

\* mutant: the send does not notice that the receiver is gone
SubmitIgnoresClosed(c, r) ==
    LET command == [op |-> r.op, key |-> r.key, value |-> r.value,
                    from |-> c, seq |-> Len(sent[c]) + 1]
    IN  /\ queue' = ChannelSend(queue, command)
        /\ sent' = [sent EXCEPT ![c] = Append(sent[c], r)]
        /\ slot' = [slot EXCEPT ![c] = None]
        /\ IF r.op = "Set"
           THEN /\ out' = [out EXCEPT ![c] = Encode(stack, out[c], SetResponse(r.key))]
                /\ pc' = [pc EXCEPT ![c] = "read"]
           ELSE /\ out' = out
                /\ pc' = [pc EXCEPT ![c] = "await"]

\* Store::get / Store::set at the channel: with the actor gone the send fails and
\* the task ends; otherwise the command is enqueued.  set then returns, and the
\* response is encoded and written; get goes on to wait for the reply.
Submit(c, r) ==
    LET command == [op |-> r.op, key |-> r.key, value |-> r.value,
                    from |-> c, seq |-> Len(sent[c]) + 1]
    IN  IF actor = "Stopped"
        THEN /\ pc' = [pc EXCEPT ![c] = "store_error"]
             /\ UNCHANGED <<queue, sent, out, slot>>
        ELSE /\ queue' = ChannelSend(queue, command)
             /\ sent' = [sent EXCEPT ![c] = Append(sent[c], r)]
             /\ slot' = [slot EXCEPT ![c] = None]
             /\ IF r.op = "Set"
                THEN /\ out' = [out EXCEPT ![c] = Encode(stack, out[c], SetResponse(r.key))]
                     /\ pc' = [pc EXCEPT ![c] = "read"]
                ELSE /\ out' = out
                     /\ pc' = [pc EXCEPT ![c] = "await"]

\* mutant: a line that fails to decode is answered with a FAIL line before the task ends
ReadLineAnswersMalformed(c, line) ==
    /\ pc[c] = "read"
    /\ nreq < MaxReqs
    /\ nreq' = nreq + 1
    /\ LET d == Decode(stack, line \o <<NL>>, 0)
       IN  IF d.result = Err
           THEN /\ pc' = [pc EXCEPT ![c] = "decode_error"]
                /\ out' = [out EXCEPT ![c] = out[c] \o FAIL \o <<NL>>]
                /\ UNCHANGED <<req, queue, sent, slot>>
           ELSE /\ req' = [req EXCEPT ![c] = d.result.item]
                /\ IF actor = "Running" /\ Len(queue) >= Capacity
                   THEN /\ pc' = [pc EXCEPT ![c] = "send"]
                        /\ UNCHANGED <<queue, sent, out, slot>>
                   ELSE Submit(c, d.result.item[1])
    /\ UNCHANGED <<stack, data, actor, server, received, codecVars>>

\* StoreProtocol::handle, framed.next() and process: one terminated line arrives and
\* is decoded by a codec whose buffer is empty.  A decode error ends the task.  A
\* request is sent to the store at once when the channel has room (send does not
\* yield then); with the channel full the task is suspended in send.
ReadLine(c, line) ==
    /\ pc[c] = "read"
    /\ nreq < MaxReqs
    /\ nreq' = nreq + 1
    /\ LET d == Decode(stack, line \o <<NL>>, 0)
       IN  IF d.result = Err
           THEN /\ pc' = [pc EXCEPT ![c] = "decode_error"]
                /\ UNCHANGED <<req, queue, sent, out, slot>>
           ELSE /\ req' = [req EXCEPT ![c] = d.result.item]
                /\ IF actor = "Running" /\ Len(queue) >= Capacity
                   THEN /\ pc' = [pc EXCEPT ![c] = "send"]
                        /\ UNCHANGED <<queue, sent, out, slot>>
                   ELSE Submit(c, d.result.item[1])
    /\ UNCHANGED <<stack, data, actor, server, received, codecVars>>

\* StoreProtocol::handle, framed.next() yields None: the client closed the stream
ReadEof(c) ==
    /\ pc[c] = "read"
    /\ pc' = [pc EXCEPT ![c] = "closed"]
    /\ UNCHANGED <<stack, data, queue, actor, server, req, slot, out, received, sent, nreq, codecVars>>

\* mutant: an io error on one connection takes the actor down with it
ReadFailsStopsActor(c) ==
    /\ pc[c] = "read"
    /\ nreq < MaxReqs
    /\ nreq' = nreq + 1
    /\ pc' = [pc EXCEPT ![c] = "transport_error"]
    /\ actor' = "Stopped"
    /\ UNCHANGED <<stack, data, queue, server, req, slot, out, received, sent, codecVars>>

\* StoreProtocol::handle, framed.next() yields an io error
ReadFails(c) ==
    /\ pc[c] = "read"
    /\ nreq < MaxReqs
    /\ nreq' = nreq + 1
    /\ pc' = [pc EXCEPT ![c] = "transport_error"]
    /\ UNCHANGED <<stack, data, queue, actor, server, req, slot, out, received, sent, codecVars>>

\* mutant: a suspended send enqueues without waiting for room
SendCommandWithoutPermit(c) ==
    /\ pc[c] = "send"
    /\ Submit(c, req[c][1])
    /\ UNCHANGED <<stack, data, actor, server, req, received, nreq, codecVars>>

\* a task suspended in send gets its permit once the channel has room (or learns
\* that the actor is gone)
SendCommand(c) ==
    /\ pc[c] = "send"
    /\ actor = "Stopped" \/ Len(queue) < Capacity
    /\ Submit(c, req[c][1])
    /\ UNCHANGED <<stack, data, actor, server, req, received, nreq, codecVars>>

\* Store::get, rx.await: the reply is there; the response is encoded and written
TakeReply(c) ==
    /\ pc[c] = "await"
    /\ slot[c] # None
    /\ out' = [out EXCEPT ![c] = Encode(stack, out[c], GetResponse(req[c][1].key, slot[c][1]))]
    /\ pc' = [pc EXCEPT ![c] = "read"]
    /\ UNCHANGED <<stack, data, queue, actor, server, req, slot, received, sent, nreq, codecVars>>

\* the receiving half of a Get's reply slot is still held: its task waits in rx.await
Deliverable(command) == pc[command.from] = "await"

\* mutant: the result of cb.send is unwrapped, so a reply nobody waits for
\* panics the actor's task
ActorStepUnwrapsSend ==
    /\ actor = "Running"
    /\ queue # <<>>
    /\ LET command == Head(queue)
           reply == IF command.op = "Get" THEN Some(BackendReply(data, command)) ELSE None
       IN  /\ data' = BackendData(data, command)
           /\ slot' = IF command.op = "Get" /\ Deliverable(command)
                      THEN [slot EXCEPT ![command.from] = reply]
                      ELSE slot
           /\ actor' = IF command.op = "Get" /\ ~Deliverable(command)
                       THEN "Stopped" ELSE actor
           /\ received' = Append(received,
                  [op |-> command.op, key |-> command.key, value |-> command.value,
                   from |-> command.from, seq |-> command.seq, reply |-> reply])
    /\ queue' = Tail(queue)
    /\ UNCHANGED <<stack, server, pc, req, out, sent, nreq, codecVars>>

\* mutant: the actor takes a command only while the channel has room again
ActorStepNeedsRoom ==
    /\ actor = "Running"
    /\ queue # <<>>
    /\ Len(queue) < Capacity
    /\ LET command == Head(queue)
           reply == IF command.op = "Get" THEN Some(BackendReply(data, command)) ELSE None
       IN  /\ data' = BackendData(data, command)
           /\ slot' = IF command.op = "Get" /\ Deliverable(command)
                      THEN [slot EXCEPT ![command.from] = reply]
                      ELSE slot
           /\ received' = Append(received,
                  [op |-> command.op, key |-> command.key, value |-> command.value,
                   from |-> command.from, seq |-> command.seq, reply |-> reply])
    /\ queue' = Tail(queue)
    /\ UNCHANGED <<stack, actor, server, pc, req, out, sent, nreq, codecVars>>

\* Backend::start: recv yields the oldest command, which is matched.  The reply of
\* a Get goes into its slot; when the receiving half is gone cb.send returns the
\* value back, which `let _ =` discards.
ActorStep ==
    /\ actor = "Running"
    /\ queue # <<>>
    /\ LET command == Head(queue)
           reply == IF command.op = "Get" THEN Some(BackendReply(data, command)) ELSE None
       IN  /\ data' = BackendData(data, command)
           /\ slot' = IF command.op = "Get" /\ Deliverable(command)
                      THEN [slot EXCEPT ![command.from] = reply]
                      ELSE slot
           /\ received' = Append(received,
                  [op |-> command.op, key |-> command.key, value |-> command.value,
                   from |-> command.from, seq |-> command.seq, reply |-> reply])
    /\ queue' = Tail(queue)
    /\ UNCHANGED <<stack, actor, server, pc, req, out, sent, nreq, codecVars>>

\* mutant: the actor leaves its loop as soon as the channel is empty
ActorStopsWhenIdle ==
    /\ actor = "Running"
    /\ queue = <<>>
    /\ actor' = "Stopped"
    /\ UNCHANGED <<stack, data, queue, server, pc, req, slot, out, received, sent, nreq, codecVars>>

\* mutant: the actor leaves its loop when the last handle is dropped, whatever is
\* still in the channel
ActorStopsOnLastDrop ==
    /\ actor = "Running"
    /\ Handles = {}
    /\ actor' = "Stopped"
    /\ UNCHANGED <<stack, data, queue, server, pc, req, slot, out, received, sent, nreq, codecVars>>

\* Backend::start: recv yields None once the channel is empty and no handle is left
ActorStop ==
    /\ actor = "Running"
    /\ queue = <<>>
    /\ Handles = {}
    /\ actor' = "Stopped"
    /\ UNCHANGED <<stack, data, queue, server, pc, req, slot, out, received, sent, nreq, codecVars>>

Next ==
    \/ ServerStop
    \/ \E c \in Conns : \E line \in ClientLines : ReadLine(c, line)
    \/ \E c \in Conns : ReadEof(c)
    \/ \E c \in Conns : ReadFails(c)
    \/ \E c \in Conns : SendCommand(c)
    \/ \E c \in Conns : TakeReply(c)
    \/ ActorStep
    \/ ActorStop

Spec == Init /\ [][Next]_vars

\* ------------------------------------------------------------------ scheduling
\* The runtime polls a task that is ready: the actor's task is not left waiting
\* for ever while recv() has a command or the end of the channel to yield.
SpecFairActor == Spec /\ WF_vars(ActorStep) /\ WF_vars(ActorStop)

\* the connections being served: lines arrive, requests are sent, replies taken
NextServe ==
    \/ \E c \in Conns : \E line \in ClientLines : ReadLine(c, line)
    \/ \E c \in Conns : SendCommand(c)
    \/ \E c \in Conns : TakeReply(c)
    \/ ActorStep

\* The runtime polls every ready task: the actor's, a sender's once the channel
\* has room for its command, and a get's once its reply is there.
SpecFair ==
    /\ Init
    /\ [][NextServe]_vars
    /\ WF_vars(ActorStep)
    /\ \A c \in Conns : WF_vars(SendCommand(c)) /\ WF_vars(TakeReply(c))

\* ------------------------------------------------------------------ the actor's task is dropped
\* The runtime on which start spawned Backend::start shuts down (or the task is
\* aborted): the receiver is dropped with the commands still in the channel, and
\* with them the reply slots of the Gets among them.
ActorAbort ==
    /\ actor = "Running"
    /\ actor' = "Stopped"
    /\ queue' = <<>>
    /\ UNCHANGED <<stack, data, server, pc, req, slot, out, received, sent, nreq, codecVars>>

\* Store::get, rx.await: the reply slot was dropped without a reply, the await
\* yields RecvError and the task ends with it
AwaitFails(c) ==
    /\ pc[c] = "await"
    /\ slot[c] = None
    /\ actor = "Stopped"
    /\ \A i \in 1..Len(queue) : queue[i].from # c
    /\ pc' = [pc EXCEPT ![c] = "store_error"]
    /\ UNCHANGED <<stack, data, queue, actor, server, req, slot, out, received, sent, nreq, codecVars>>

\* the server keeps accepting and no client closes its stream, but the actor's
\* task may be dropped at any moment
NextAbort ==
    \/ \E c \in Conns : \E line \in ClientLines : ReadLine(c, line)
    \/ \E c \in Conns : ReadFails(c)
    \/ \E c \in Conns : SendCommand(c)
    \/ \E c \in Conns : TakeReply(c)
    \/ ActorStep
    \/ ActorAbort
    \/ \E c \in Conns : AwaitFails(c)

SpecAbort == Init /\ [][NextAbort]_vars

\* ------------------------------------------------------------------ a connection's task is dropped
\* The task spawned for a connection is dropped where it waits (its runtime shuts
\* down): its handle goes, and so does the receiving half of the reply slot of a
\* Get it was waiting for.
TaskDrop(c) ==
    /\ pc[c] \in Alive
    /\ pc' = [pc EXCEPT ![c] = "dropped"]
    /\ UNCHANGED <<stack, data, queue, actor, server, req, slot, out, received, sent, nreq, codecVars>>

\* the server keeps accepting and the transports do not fail, but a connection's
\* task may be dropped at any moment
NextDrop ==
    \/ \E c \in Conns : \E line \in ClientLines : ReadLine(c, line)
    \/ \E c \in Conns : SendCommand(c)
    \/ \E c \in Conns : TakeReply(c)
    \/ \E c \in Conns : TaskDrop(c)
    \/ ActorStep

SpecDrop == Init /\ [][NextDrop]_vars

\* ------------------------------------------------------------------ reading the history
Max(S) == CHOOSE x \in S : \A y \in S : y <= x

\* the positions of log at which a Set to key k stands
SetsTo(log, k) == {i \in 1..Len(log) : log[i].op = "Set" /\ log[i].key = k}

\* the value of the most recent Set to k in log, if any
LastSetValue(log, k) ==
    IF SetsTo(log, k) = {} THEN None ELSE log[Max(SetsTo(log, k))].value

Before(i) == SubSeq(received, 1, i - 1)

IsGet(i) == received[i].op = "Get"

\* the position in `received` of the command handle c submitted last, or 0
LastReceivedOf(c) ==
    LET S == {i \in 1..Len(received) :
                 received[i].from = c /\ received[i].seq = Len(sent[c])}
    IN  IF S = {} THEN 0 ELSE Max(S)

\* the last terminated line of a byte sequence, without its terminator
LastLine(bytes) ==
    LET ends == {i \in 1..(Len(bytes) - 1) : bytes[i] = NL}
        start == IF ends = {} THEN 1 ELSE Max(ends) + 1
    IN  SubSeq(bytes, start, Len(bytes) - 1)

\* C1: every Get observes the store produced by the prefix of the order in which
\* the actor received the commands: its reply is the value of the most recent Set
\* to its key among the commands dequeued before it, or absent if there is none;
\* and that reply is what the calling handle finds in its reply slot.
C1_GetObservesReceivedPrefix ==
    /\ \A i \in 1..Len(received) :
          IsGet(i) => received[i].reply = Some(LastSetValue(Before(i), received[i].key))
    /\ \A c \in Conns :
          (pc[c] = "await" /\ slot[c] # None) =>
             /\ LastReceivedOf(c) # 0
             /\ slot[c] = received[LastReceivedOf(c)].reply

\* a Get answered with a value after Sets of two different handles were received
C1_Witness ==
    \E i \in 1..Len(received) :
        /\ IsGet(i)
        /\ received[i].reply # Some(None)
        /\ \E a, b \in SetsTo(Before(i), received[i].key) :
              received[a].from # received[b].from

\* C2: last write wins: when Set(k, v1) and then Set(k, v2) are applied and no
\* other Set to k is applied afterwards, a later Get(k) is answered v2.
C2_LastWriteWins ==
    \A i, j, m \in 1..Len(received) :
        ( /\ i < j /\ j < m
          /\ i \in SetsTo(received, received[m].key)
          /\ j \in SetsTo(received, received[m].key)
          /\ IsGet(m)
          /\ \A x \in (j + 1)..(m - 1) : x \notin SetsTo(received, received[m].key) )
        => received[m].reply = Some(received[j].value)

\* Set(k, v1), Set(k, v2) with v1 # v2, then Get(k), all received
C2_Witness ==
    \E i, j, m \in 1..Len(received) :
        /\ i < j /\ j < m
        /\ IsGet(m)
        /\ i \in SetsTo(received, received[m].key)
        /\ j \in SetsTo(received, received[m].key)
        /\ received[i].value # received[j].value

OwnSetsTo(c, k, n) ==
    {m \in 1..(n - 1) : sent[c][m].op = "Set" /\ sent[c][m].key = k}

\* C4: read your writes: a get(k) called on a handle after set(k, v) returned on
\* the same handle is answered v when no other handle's Set to k reaches the actor
\* before that get, although set returns once its command is enqueued.
C4_ReadYourWrites ==
    \A i \in 1..Len(received) :
        LET c == received[i].from
            k == received[i].key
            own == OwnSetsTo(c, k, received[i].seq)
        IN  ( /\ IsGet(i)
              /\ own # {}
              /\ \A x \in SetsTo(Before(i), k) : received[x].from = c )
            => received[i].reply = Some(sent[c][Max(own)].value)

\* a handle's Get answered with the value of its own earlier Set
C4_Witness ==
    \E i \in 1..Len(received) :
        /\ IsGet(i)
        /\ OwnSetsTo(received[i].from, received[i].key, received[i].seq) # {}
        /\ \A x \in SetsTo(Before(i), received[i].key) : received[x].from = received[i].from
        /\ received[i].reply # Some(None)

\* the commands of handle c in the order the actor receives them: those already
\* dequeued, then those still in the channel
OrderAtActor(c) == SelectSeq(received \o [i \in 1..Len(queue) |-> queue[i] @@ [reply |-> None]],
                             LAMBDA e : e.from = c)

\* C5: the commands submitted through one handle reach the actor in the order of
\* submission: the n-th command the actor sees from a handle is the n-th the
\* handle submitted, under every interleaving with other handles and with sends
\* that waited for room in the channel.
C5_PerHandleFifo ==
    \A c \in Conns :
        LET order == OrderAtActor(c)
        IN  /\ Len(order) = Len(sent[c])
            /\ \A n \in 1..Len(sent[c]) :
                  /\ order[n].seq = n
                  /\ order[n].op = sent[c][n].op
                  /\ order[n].key = sent[c][n].key
                  /\ order[n].value = sent[c][n].value

\* the channel is full, a handle's second command stands in it behind another
\* handle's command, and its first has been received
C5_Witness ==
    /\ Len(queue) = Capacity
    /\ \E i, j \in 1..Len(queue) :
          /\ i < j
          /\ queue[i].from # queue[j].from
          /\ queue[j].seq = 2
          /\ \E x \in 1..Len(received) :
                received[x].from = queue[j].from /\ received[x].seq = 1

\* C6: idempotence of Get: two Gets of the same key between which the actor
\* applies no Set to that key are answered alike.
C6_GetIdempotent ==
    \A i, j \in 1..Len(received) :
        ( /\ i < j
          /\ IsGet(i) /\ IsGet(j)
          /\ received[i].key = received[j].key
          /\ \A x \in (i + 1)..(j - 1) : x \notin SetsTo(received, received[i].key) )
        => received[i].reply = received[j].reply

\* two consecutive Gets of a key that holds a value
C6_Witness ==
    \E i \in 1..(Len(received) - 1) :
        /\ IsGet(i) /\ IsGet(i + 1)
        /\ received[i].key = received[i + 1].key
        /\ received[i].reply # Some(None)

\* every Set to k that any connection has read is applied
NoSetInFlight(k) ==
    /\ \A i \in 1..Len(queue) : ~(queue[i].op = "Set" /\ queue[i].key = k)
    /\ \A c \in Conns : pc[c] = "send" => ~(req[c][1].op = "Set" /\ req[c][1].key = k)

\* connection c has been answered a GET k that the actor received after every Set to k
AnsweredAfterSets(c, k) ==
    LET p == LastReceivedOf(c)
    IN  /\ p # 0
        /\ IsGet(p)
        /\ received[p].key = k
        /\ pc[c] # "await"
        /\ \A x \in SetsTo(received, k) : x < p

RECURSIVE LinesOf(_)
LinesOf(bytes) ==
    LET p == Position(bytes, NL, 0)
    IN  IF p = 0 THEN <<>>
        ELSE <<SubSeq(bytes, 1, p - 1)>> \o LinesOf(SubSeq(bytes, p + 1, Len(bytes)))

\* the results of the decode calls that extracted a line
Extracted == SelectSeq(results, LAMBDA r : r # OkNone)

\* the fields of the line the i-th extracting call took
FieldsOf(i) == Split(LinesOf(fed)[i])

\* C8: a complete line whose first field is GET decodes to a request only when
\* exactly one further field follows; with none, or with two or more (`GET k
\* extra`), decoding fails.
C8_GetTakesOneField ==
    \A i \in 1..Len(Extracted) :
        (i <= Len(LinesOf(fed)) /\ FieldsOf(i)[1] = GET /\ Len(FieldsOf(i)) # 2)
           => Extracted[i] = Err

\* C9: a complete line whose first field is SET decodes to a request only when
\* exactly two further fields follow; with none, one, or three or more (`SET k v
\* extra`), decoding fails.
C9_SetTakesTwoFields ==
    \A i \in 1..Len(Extracted) :
        (i <= Len(LinesOf(fed)) /\ FieldsOf(i)[1] = SET /\ Len(FieldsOf(i)) # 3)
           => Extracted[i] = Err

\* the malformed lines of the grammar: GET or SET alone, SET with a key only, and
\* every line whose first field is neither GET nor SET
IsMalformed(line) ==
    \/ Split(line)[1] \notin {GET, SET}
    \/ line \in {GET, SET}
    \/ Split(line)[1] = SET /\ Len(Split(line)) = 2

\* the stream is one terminated malformed line and nothing else
OneMalformedLine ==
    LET whole == fed \o input
    IN  /\ Len(LinesOf(whole)) = 1
        /\ whole = LinesOf(whole)[1] \o <<NL>>
        /\ IsMalformed(LinesOf(whole)[1])

\* C10: when the buffer holds exactly one terminated malformed line, the decode
\* call that takes it returns an error and leaves the buffer empty, and no later
\* call sees those bytes again: every later call returns None.
C10_MalformedLineIsConsumed ==
    (OneMalformedLine /\ Extracted # <<>>)
       => /\ src = <<>>
          /\ Extracted = <<Err>>
          /\ \E n \in 1..Len(results) :
                /\ results[n] = Err
                /\ \A m \in 1..Len(results) : m # n => results[m] = OkNone

\* a malformed line was taken with an error and a call after it found nothing
C10_Witness ==
    /\ OneMalformedLine
    /\ src = <<>>
    /\ Len(results) >= 2
    /\ results[Len(results) - 1] = Err
    /\ results[Len(results)] = OkNone

\* ------------------------------------------------------------------ framing
\* a decode call was made in this step
DecodeCalled == Len(results') = Len(results) + 1

\* C11: a decode call on a buffer without a terminator returns None (no request,
\* no error) and leaves the buffer byte for byte as it was, however many such
\* calls are made and whatever terminator-free bytes arrive between them.
C11_PartialLineUntouched ==
    [][(DecodeCalled /\ Position(src, NL, 0) = 0)
          => (results'[Len(results')] = OkNone /\ src' = src)]_vars

\* a partial line was looked at, grew without a terminator, was looked at again,
\* and is still whole in the buffer
C11_Witness ==
    /\ Len(results) >= 2
    /\ results[Len(results)] = OkNone
    /\ results[Len(results) - 1] = OkNone
    /\ fresh = 1
    /\ Len(src) >= 2
    /\ Position(src, NL, 0) = 0
    /\ src = fed

\* the lines with their terminators put back, one after the other
RECURSIVE Joined(_)
Joined(lines) ==
    IF lines = <<>> THEN <<>> ELSE Head(lines) \o <<NL>> \o Joined(Tail(lines))

\* the request a well-formed line stands for
RequestOf(line) ==
    CHOOSE r \in {GetRequest(k) : k \in Keys} \cup {SetRequest(k, v) : k \in Keys, v \in Values} :
        line = IF r.op = "Get" THEN GetLine(r.key) ELSE SetLine(r.key, r.value[1])

\* C12: each decode call that finds a terminator removes the first line with its
\* terminator and nothing else, so that what was delivered is always the lines
\* taken so far followed by the buffer; a call returns None only when no
\* terminator is left; and the requests come out in the order of their lines.
C12_TakesExactlyTheFirstLine ==
    LET n == Len(Extracted)
        lines == LinesOf(fed)
    IN  /\ n <= Len(lines)
        /\ fed = Joined(SubSeq(lines, 1, n)) \o src
        /\ fresh >= 1 => Position(src, NL, 0) = 0
        /\ \A i \in 1..n :
              lines[i] \in WellFormedLines => Extracted[i] = Ok(RequestOf(lines[i]))

\* two requests were taken in order out of a buffer that still holds the
\* beginning of a third line
C12_Witness ==
    /\ Len(Extracted) = 2
    /\ Extracted[1] = Ok(SetRequest(KeyA, Value1))
    /\ Extracted[2] = Ok(GetRequest(KeyB))
    /\ src = <<"G", "E">>
    /\ input = <<>>

\* C14: every request produced by a successful decode carries a non-empty key
\* without space or terminator, and a Set a value without space or terminator;
\* `GET ` followed by the terminator does not decode to a request.
C14_DecodedKeysAreTokens ==
    \A i \in 1..Len(Extracted) :
        Extracted[i].tag = "Ok" =>
            LET r == Extracted[i].item[1]
            IN  /\ r.key # <<>>
                /\ \A j \in 1..Len(r.key) : r.key[j] \notin {SP, NL}
                /\ r.op = "Set" =>
                      \A j \in 1..Len(r.value[1]) : r.value[1][j] \notin {SP, NL}

\* ------------------------------------------------------------------ responses
\* how many requests of connection c have been answered
Answered(c) == Len(sent[c]) - (IF pc[c] = "await" THEN 1 ELSE 0)

\* what the actor replied to the i-th command of connection c
ReplyTo(c, i) ==
    LET n == CHOOSE n \in 1..Len(received) : received[n].from = c /\ received[n].seq = i
    IN  received[n].reply[1]

\* the response line the protocol defines for the i-th request of connection c
ResponseLine(c, i) ==
    LET r == sent[c][i]
    IN  IF r.op = "Set" THEN OKAY \o <<SP>> \o r.key
        ELSE IF ReplyTo(c, i) # None
             THEN OKAY \o <<SP>> \o r.key \o <<SP>> \o ReplyTo(c, i)[1]
             ELSE FAIL \o <<SP>> \o r.key

PendingIn(q, c) == SelectSeq(q, LAMBDA command : command.from = c)
Pending(c) == PendingIn(queue, c)

\* C15: the step in which a line of a connection fails to decode ends the
\* connection with the decode error: it writes nothing, hands nothing to the
\* store, and finds every earlier request of the connection answered; from then
\* on the connection reads no line, writes nothing and calls the store no more.
C15_DecodeErrorEndsConnection ==
    [][\A c \in Conns :
          /\ (pc[c] # "decode_error" /\ pc'[c] = "decode_error")
                => /\ pc[c] = "read"
                   /\ out'[c] = out[c]
                   /\ sent'[c] = sent[c]
                   /\ queue' = queue
                   /\ Len(LinesOf(out[c])) = Len(sent[c])
          /\ pc[c] = "decode_error"
                => /\ pc'[c] = "decode_error"
                   /\ out'[c] = out[c]
                   /\ sent'[c] = sent[c]
                   /\ Len(PendingIn(queue', c)) <= Len(Pending(c))]_vars

\* a connection whose Set and Get were answered sent a malformed line and ended
C15_Witness ==
    \E c \in Conns :
        /\ pc[c] = "decode_error"
        /\ sent[c] = <<SetRequest(KeyA, Value1), GetRequest(KeyA)>>
        /\ out[c] = OKAY \o <<SP>> \o KeyA \o <<NL>>
                    \o OKAY \o <<SP>> \o KeyA \o <<SP>> \o Value1 \o <<NL>>

\* the positions in `received` of the commands of connection c
ReceivedOf(c) == {n \in 1..Len(received) : received[n].from = c}

\* the store call process makes for a request: get for a Get, set for a Set, with
\* the request's key and value
IsCallOf(command, r) ==
    command.op = r.op /\ command.key = r.key /\ command.value = r.value

\* C16, amended: per connection, each dispatched request made exactly one command
\* of its own kind, key and value, in request order; each answered request has
\* exactly one response line, and the line written last carries the key of the
\* request answered last, so that the responses are in request order; request i+1
\* is decoded and dispatched only when response i is written, so at most one
\* store call of a connection is outstanding.  (The commands of acknowledged Sets may
\* still wait in the channel, so several commands of one connection can be pending.)
C16_OneCallOneResponse ==
    \A c \in Conns :
        /\ Cardinality(ReceivedOf(c)) + Len(Pending(c)) = Len(sent[c])
        /\ {received[n].seq : n \in ReceivedOf(c)} \cup {queue[i].seq : i \in {j \in 1..Len(queue) : queue[j].from = c}}
              = 1..Len(sent[c])
        /\ \A n \in ReceivedOf(c) : IsCallOf(received[n], sent[c][received[n].seq])
        /\ \A i \in 1..Len(queue) : queue[i].from = c => IsCallOf(queue[i], sent[c][queue[i].seq])
        /\ Cardinality({i \in 1..Len(out[c]) : out[c][i] = NL}) = Answered(c)
        /\ Answered(c) > 0 =>
              LastLine(out[c]) \in
                  LET key == sent[c][Answered(c)].key
                  IN  {OKAY \o <<SP>> \o key, FAIL \o <<SP>> \o key}
                         \cup {OKAY \o <<SP>> \o key \o <<SP>> \o v : v \in Values}
        /\ pc[c] \in {"read", "send"} => Answered(c) = Len(sent[c])
        /\ Cardinality({i \in 1..Len(queue) : queue[i].from = c /\ queue[i].op = "Get"}) <= 1

\* C16, as stated: all of the above, and moreover at most one command of a
\* connection is in flight, that is, sent to the actor and not yet received by it.
C16_OneCommandInFlight ==
    /\ C16_OneCallOneResponse
    /\ \A c \in Conns : Len(Pending(c)) <= 1

\* a connection has three requests answered in order while two of its commands,
\* both Sets, still wait in the channel
C16_Witness ==
    \E c \in Conns :
        /\ Len(sent[c]) = 3
        /\ Answered(c) = 3
        /\ Len(LinesOf(out[c])) = 3
        /\ sent[c][1].key # sent[c][2].key
        /\ Len(Pending(c)) = 2

\* ------------------------------------------------------------------ failures stay local
\* how a connection's task ends with an error: the line did not decode, the
\* transport failed, or the store call returned a delivery error
Errors == {"decode_error", "transport_error", "store_error"}

\* the next step of a task that is not ended can be taken
CanGoOn(d) ==
    /\ (pc[d] = "read" /\ nreq < MaxReqs) => ENABLED ReadLine(d, GetLine(KeyA))
    /\ (pc[d] = "send" /\ Len(queue) < Capacity) => ENABLED SendCommand(d)
    /\ (pc[d] = "await" /\ slot[d] # None) => ENABLED TakeReply(d)

\* C17: the step in which a connection ends with an error changes nothing but
\* that connection's task: the mapping, the channel, the actor and its state, and
\* the state of every other connection are as before; and while a connection is
\* ended with an error and the actor runs, the actor still takes the pending
\* commands and every other connection still reads, dispatches and is answered.
C17_ErrorEndsOnlyItsTask ==
    /\ [][\A c \in Conns :
            (pc[c] \notin Errors /\ pc'[c] \in Errors)
               => /\ data' = data
                  /\ actor' = actor
                  /\ queue' = queue
                  /\ received' = received
                  /\ server' = server
                  /\ \A d \in Conns \ {c} :
                        /\ pc'[d] = pc[d]
                        /\ req'[d] = req[d]
                        /\ slot'[d] = slot[d]
                        /\ out'[d] = out[d]
                        /\ sent'[d] = sent[d]]_vars
    /\ [](\A c \in Conns :
            (pc[c] \in Errors /\ actor = "Running")
               => /\ queue # <<>> => ENABLED ActorStep
                  /\ \A d \in Conns \ {c} : CanGoOn(d))

\* one connection ended with a transport error before it sent anything, the
\* actor runs, and the other connection has had its Set and its Get answered
C17_Witness ==
    \E c \in Conns : \E d \in Conns \ {c} :
        /\ pc[c] = "transport_error"
        /\ sent[c] = <<>>
        /\ actor = "Running"
        /\ pc[d] = "read"
        /\ sent[d] = <<SetRequest(KeyA, Value1), GetRequest(KeyA)>>
        /\ Answered(d) = 2
        /\ data[KeyA] = Value1

\* ------------------------------------------------------------------ delivery errors
\* the reply slot of the Get connection c waits for was dropped without a reply
ReplySlotDropped(c) ==
    /\ pc[c] = "await"
    /\ slot[c] = None
    /\ actor = "Stopped"
    /\ Pending(c) = <<>>

\* C18: once the actor is gone and its channel closed, a get or set called on
\* any handle ends in a delivery error: whatever step a task reading or sending
\* takes next, nothing is enqueued, no response is written, and a request that
\* decoded ends its task with the store's error.  A get whose command was
\* enqueued and whose reply slot was dropped without a reply does not wait on:
\* its await can fail, and fails with the store's error.
C18_ClosedQueueIsDeliveryError ==
    /\ [][\A c \in Conns :
            /\ (actor = "Stopped" /\ pc[c] \in {"read", "send"} /\ pc'[c] # pc[c])
                  => /\ pc'[c] \in Errors
                     /\ pc[c] = "send" => pc'[c] = "store_error"
                     /\ req'[c] # req[c] => pc'[c] = "store_error"
                     /\ queue' = queue
                     /\ sent'[c] = sent[c]
                     /\ out'[c] = out[c]
            /\ (ReplySlotDropped(c) /\ pc'[c] # pc[c])
                  => /\ pc'[c] = "store_error"
                     /\ out'[c] = out[c]]_vars
    /\ [](\A c \in Conns : ReplySlotDropped(c) => ENABLED AwaitFails(c))

\* with the actor gone, one connection's enqueued Get ended with a delivery
\* error without ever being received, and the other connection's set was refused
C18_Witness ==
    \E c \in Conns : \E d \in Conns \ {c} :
        /\ actor = "Stopped"
        /\ pc[c] = "store_error"
        /\ sent[c] # <<>>
        /\ sent[c][Len(sent[c])].op = "Get"
        /\ LastReceivedOf(c) = 0
        /\ pc[d] = "store_error"
        /\ req[d] = Some(SetRequest(KeyA, Value1))
        /\ sent[d] = <<>>
        /\ out[d] = <<>>

\* ------------------------------------------------------------------ the actor's life
\* C19: the actor is Running or Stopped and nothing else; it is Running in every
\* state in which a handle exists; it stops only in a step before which every
\* handle was dropped (and the channel drained); once Stopped it stays Stopped.
C19_RunningWhileHandlesExist ==
    /\ [](actor \in {"Running", "Stopped"} /\ (Handles # {} => actor = "Running"))
    /\ [][(actor = "Running" /\ actor' = "Stopped") => (Handles = {} /\ queue = <<>>)]_vars
    /\ [][actor = "Stopped" => actor' = "Stopped"]_vars

\* the actor served commands, every handle was dropped, and it stopped
C19_Witness ==
    /\ actor = "Stopped"
    /\ Handles = {}
    /\ Len(received) >= 2
    /\ \E c \in Conns : pc[c] = "closed"

\* ------------------------------------------------------------------ backpressure
\* the command a suspended task of connection c will enqueue
Waiting(c) ==
    [op |-> req[c][1].op, key |-> req[c][1].key, value |-> req[c][1].value,
     from |-> c, seq |-> Len(sent[c]) + 1]

\* C20: the channel never holds more commands than its capacity (the capacity of
\* the state machine, which is at most the 32 of the code).  A task is suspended
\* in send only when it finds the channel full, and while it is suspended its
\* command is nowhere in the channel; its command is enqueued only in a step that
\* finds room, once, at the back, behind everything already there.
C20_FullQueueSuspendsSender ==
    /\ [](/\ Capacity <= ChannelCapacity
          /\ Len(queue) <= Capacity
          /\ \A c \in Conns :
                pc[c] = "send" => \A i \in 1..Len(queue) : queue[i] # Waiting(c))
    /\ [][\A c \in Conns :
            /\ (pc[c] # "send" /\ pc'[c] = "send")
                  => (Len(queue) = Capacity /\ queue' = queue)
            /\ (pc[c] = "send" /\ pc'[c] # "send")
                  => /\ Len(queue) < Capacity
                     /\ queue' = Append(queue, Waiting(c))
                     /\ sent'[c] = Append(sent[c], req[c][1])]_vars

\* the channel is full with commands of both connections and a third command
\* waits for room
C20_Witness ==
    \E c \in Conns : \E d \in Conns \ {c} :
        /\ pc[c] = "send"
        /\ Len(queue) = Capacity
        /\ \E i, j \in 1..Len(queue) : queue[i].from = c /\ queue[j].from = d

\* ------------------------------------------------------------------ the scan cursor
\* a decoder without a cursor: every call looks for the terminator from the first
\* byte of the buffer
ScanFromStart(st, buf) ==
    LET p == Position(buf, NL, 0)
        line == SubSeq(buf, 1, p - 1)
    IN  IF p = 0 THEN [src |-> buf, result |-> OkNone]
        ELSE [src |-> SubSeq(buf, p + 1, Len(buf)),
              result |-> IF st = "api" THEN FromWire(WithoutCarriageReturn(line))
                         ELSE Parse(line)]

\* C21: the cursor is an optimisation only: every decode call returns what a
\* decoder scanning from the start of the buffer returns and leaves the buffer
\* that decoder leaves, for every stream and every chunking of it; the cursor is
\* never beyond the end of the buffer, and it is 0 after every call that
\* extracted a line, parsed or malformed.
C21_CursorIsAnOptimisation ==
    /\ [](next_index <= Len(src))
    /\ [][DecodeCalled =>
            /\ results'[Len(results')] = ScanFromStart(stack, src).result
            /\ src' = ScanFromStart(stack, src).src
            /\ results'[Len(results')] # OkNone => next_index' = 0]_vars

\* after a line was extracted the cursor stands behind a partial line that a
\* call has scanned, and more bytes are still to come
C21_Witness ==
    /\ Extracted # <<>>
    /\ results[Len(results)] = OkNone
    /\ next_index = Len(src)
    /\ next_index >= 2
    /\ input # <<>>

\* ------------------------------------------------------------------ Get leaves the mapping alone
\* the actor took a Get in this step
GetProcessed ==
    /\ Len(received') = Len(received) + 1
    /\ received'[Len(received')].op = "Get"

\* the positions in `received` of the Gets whose reply nobody could take: the
\* task that asked was dropped while it waited
Undelivered ==
    {n \in 1..Len(received) :
        /\ received[n].op = "Get"
        /\ pc[received[n].from] = "dropped"
        /\ received[n].seq = Len(sent[received[n].from])
        /\ slot[received[n].from] = None}

\* C22: the step in which the actor processes a Get leaves the mapping as it
\* was, for a key that is present and for one that is absent, whether the reply
\* is deliverable or not; the actor is Running after it, and goes on to take the
\* commands behind a Get whose reply could not be delivered.
C22_GetLeavesMappingUnchanged ==
    /\ [][GetProcessed =>
            /\ data' = data
            /\ actor' = "Running"
            /\ received'[Len(received')].reply = Some(HashMapGet(data, Head(queue).key))]_vars
    /\ []((Undelivered # {} /\ queue # <<>>) => ENABLED ActorStep)
    /\ [](Undelivered # {} => actor = "Running")

\* the reply to a Get of a present key could not be delivered, the mapping still
\* holds the key, and the actor has processed a command after that Get
C22_Witness ==
    \E n \in Undelivered :
        /\ received[n].reply # Some(None)
        /\ received[n].key \in DOMAIN data
        /\ n < Len(received)

\* ------------------------------------------------------------------ Set changes one key
\* the actor took a Set in this step
SetProcessed ==
    /\ Len(received') = Len(received) + 1
    /\ received'[Len(received')].op = "Set"

\* C26: the step in which the actor processes Set(k, v) leaves every key other
\* than k as it was, present with the same value or absent, and puts v under k;
\* and no step but the actor processing a Set changes the mapping.
C26_SetChangesOnlyItsKey ==
    /\ [][SetProcessed =>
            LET command == Head(queue)
            IN  /\ HashMapGet(data', command.key) = command.value
                /\ \A j \in Keys \ {command.key} : HashMapGet(data', j) = HashMapGet(data, j)
                /\ DOMAIN data' \subseteq Keys]_vars
    /\ [][data' # data => SetProcessed]_vars

\* the Set processed last overwrote its key while the other key was present, and
\* the other key still has its value
C26_Witness ==
    /\ Len(received) = 3
    /\ received[1] = [op |-> "Set", key |-> KeyB, value |-> Some(Value1),
                      from |-> received[1].from, seq |-> received[1].seq, reply |-> None]
    /\ received[2].op = "Set" /\ received[2].key = KeyA /\ received[2].value = Some(Value1)
    /\ received[3].op = "Set" /\ received[3].key = KeyA /\ received[3].value = Some(Value2)
    /\ data[KeyA] = Value2
    /\ data[KeyB] = Value1

\* ------------------------------------------------------------------ shutdown
\* the commands the handles have sent, as the actor logs them, for one connection
SentBy(c) == [i \in 1..Len(sent[c]) |-> [op |-> sent[c][i].op, key |-> sent[c][i].key,
                                         value |-> sent[c][i].value, from |-> c, seq |-> i]]

\* C23: once every handle is dropped the actor eventually stops; it stops only
\* with the channel drained, having received every command any handle enqueued,
\* each connection's in the order it was enqueued, and with the mapping that
\* these commands produce, so that no accepted Set is lost.
C23_GracefulShutdown ==
    /\ (Handles = {}) ~> (actor = "Stopped")
    /\ [][(Handles = {} /\ actor = "Running" /\ queue # <<>>)
             => (actor' = "Running" /\ (queue' = queue \/ (queue' = Tail(queue) /\ Len(received') = Len(received) + 1)))]_vars
    /\ [](actor = "Stopped" =>
            /\ queue = <<>>
            /\ \A c \in Conns :
                  SelectSeq([n \in 1..Len(received) |->
                                [op |-> received[n].op, key |-> received[n].key,
                                 value |-> received[n].value, from |-> received[n].from,
                                 seq |-> received[n].seq]],
                            LAMBDA command : command.from = c) = SentBy(c)
            /\ \A k \in Keys : HashMapGet(data, k) = LastSetValue(received, k))

\* every handle is dropped while two Sets of one connection are still in the
\* channel and the actor has yet to apply them
C23_Witness ==
    /\ Handles = {}
    /\ actor = "Running"
    /\ Len(queue) = 2
    /\ queue[1].op = "Set" /\ queue[2].op = "Set"
    /\ queue[1].from = queue[2].from
    /\ queue[1].key = queue[2].key
    /\ queue[1].value # queue[2].value

\* ------------------------------------------------------------------ order across handles
\* every command that entered the channel, oldest first: those the actor has
\* received, then those still waiting; a set has returned, and a get has been
\* invoked and accepted, exactly when its command stands here
Channel ==
    [n \in 1..Len(received) |->
        [op |-> received[n].op, key |-> received[n].key, value |-> received[n].value,
         from |-> received[n].from, seq |-> received[n].seq]] \o queue

\* the positions in `received`, from the j-th up to but not including the i-th, of
\* the Sets to key k
SetsBetween(j, i, k) == {m \in j..(i - 1) : received[m].op = "Set" /\ received[m].key = k}

\* C24: a set that has returned on one handle stands in the channel, and a get
\* invoked afterwards on another handle enters the channel behind it, because
\* the channel only grows at its back, whichever handle sends; and a Get that
\* the actor receives behind a Set to its key of another handle is answered with
\* the value of that Set or of a Set to the key received after it, never with
\* absence and never with an older value.
C24_RealTimeOrderAcrossHandles ==
    /\ [](\A c \in Conns :
            Cardinality({n \in 1..Len(Channel) : Channel[n].from = c}) = Len(sent[c]))
    /\ [][\/ Channel' = Channel
          \/ \E c \in Conns :
                /\ Len(sent'[c]) = Len(sent[c]) + 1
                /\ Channel' = Append(Channel, Channel'[Len(Channel')])
                /\ Channel'[Len(Channel')].from = c
                /\ Channel'[Len(Channel')].seq = Len(sent'[c])]_vars
    /\ [](\A i, j \in 1..Len(received) :
            ( /\ j < i
              /\ IsGet(i)
              /\ received[j].op = "Set"
              /\ received[j].key = received[i].key
              /\ received[j].from # received[i].from )
            => /\ received[i].reply # Some(None)
               /\ \E m \in SetsBetween(j, i, received[i].key) :
                     /\ received[i].reply = Some(received[m].value)
                     /\ SetsBetween(m + 1, i, received[i].key) = {})

\* handle A's Set(a, 1) and then its Set(a, 2) returned and were applied, and
\* handle B's Get(a) behind them is answered 2
C24_Witness ==
    /\ Len(received) = 3
    /\ received[1].op = "Set" /\ received[1].key = KeyA /\ received[1].value = Some(Value1)
    /\ received[2].op = "Set" /\ received[2].key = KeyA /\ received[2].value = Some(Value2)
    /\ received[2].from = received[1].from
    /\ received[3].op = "Get" /\ received[3].key = KeyA
    /\ received[3].from # received[1].from
    /\ received[3].reply = Some(Some(Value2))
    /\ pc[received[3].from] = "read"
    /\ LastLine(out[received[3].from]) = OKAY \o <<SP>> \o KeyA \o <<SP>> \o Value2

\* ------------------------------------------------------------------ progress
\* C25: with the actor and the tasks scheduled fairly, the n-th command accepted
\* into the channel is eventually received by the actor, every get that was
\* accepted eventually has its reply and returns, and every sender suspended on a
\* full channel eventually enqueues its command; the actor's step needs nothing
\* but a command in the channel, so a full channel with waiting senders is never
\* a deadlock.
C25_AcceptedCommandsAreProcessed ==
    /\ \A n \in 1..MaxReqs : (Len(received) + Len(queue) >= n) ~> (Len(received) >= n)
    /\ \A c \in Conns : (pc[c] = "await") ~> (pc[c] = "read" /\ slot[c] # None)
    /\ \A c \in Conns : (pc[c] = "send") ~> (pc[c] \in {"read", "await"})
    /\ []((actor = "Running" /\ queue # <<>>) => ENABLED ActorStep)
    /\ [](\A c \in Conns : pc[c] \in Alive => actor = "Running")

\* the channel is full with a Get whose task waits for the reply, and the other
\* connection's task is suspended in send
C25_Witness ==
    \E c \in Conns : \E d \in Conns \ {c} :
        /\ Len(queue) = Capacity
        /\ pc[c] = "send"
        /\ pc[d] = "await"
        /\ \E i \in 1..Len(queue) : queue[i].from = d /\ queue[i].op = "Get"

====
